---- MODULE Spec2Model ----
(***************************************************************************)
(* Point-in-polygon constraint system of zk-geo-offline                    *)
(* (circuits/PointInPolygon.circom, Lines.circom, Utility.circom).         *)
(*                                                                         *)
(* A template is modelled by the value its constraints force on the output *)
(* signal.  Every template has two readings:                               *)
(*   - the witness generator (the value computed by the <== / <--          *)
(*     assignments, canonical bits in every bit decomposition), and        *)
(*   - the constraint system (every assignment of the intermediate signals *)
(*     that satisfies the constraints), written as the SET of outputs a    *)
(*     prover can reach; the empty set means "unsatisfiable".              *)
(*                                                                         *)
(* The field is scaled down: P plays the BN254 scalar field modulus and    *)
(* NBits the 254 bits of Num2Bits(254); as in the original,                *)
(*   P < 2^NBits < 2P   (a 254-bit vector can encode in and in + P),       *)
(* and the grid is far below the no-wrap limit 2*(2^grid_bits-1)^2 < P.    *)
(***************************************************************************)
EXTENDS Integers, Sequences, FiniteSets, TLC

VARIABLES
    gadget,     \* the template under test
    gridbits,   \* its grid_bits parameter
    point,      \* input signal point[2]
    polygon,    \* input signal polygon[n][2]
    line1,      \* input signal line1[2][2] (line of OnSegment, points[0..1] of Orientation)
    line2,      \* input signal line2[2][2]
    pc,         \* "base" -> "input" -> "witness" -> "proved"
    out,        \* output signal computed by the witness generator
    outP,       \* output signal in an assignment chosen by a prover
    currentPolygon, \* polygons.ts: coordinates of the selected polygon (LocalScaled)
    position,       \* the GNSS fix: latitude and longitude (in 1/SubSteps of 0.0001 degree), accuracy
    circuitInput,   \* value returned by prepareCircuitInput
    normalized,     \* outcome of normalizePolygonTo8Vertices
    currentState,   \* main.ts: the ProofState of the generate button
    disabled,       \* button.disabled of the generate button
    timerInterval,  \* the handle kept by startTimer, 0 for null
    intervals,      \* the intervals set by window.setInterval and not cleared
    geolocation,    \* 'geolocation' in navigator
    geoRequests,    \* getCurrentPosition requests whose callback has not run yet
    runs,           \* executions of proceedWithProof, by session id
    sessions,       \* db.ts: the object store gnss_sessions, by key session_id
    errorActions,   \* buttons of the error card on display: <<label, position>>
    files,          \* the files handed to the browser for download
    cache,          \* service worker: the requests stored in the cache CACHE_NAME
    reachable,      \* the requests the network answers with status 200
    served,         \* the last fetch event: its request and where the answer came from
    loop            \* SimplePolygon: the double loop that instantiates intersects[index]

circuitVars == <<gadget, gridbits, point, polygon, line1, line2, pc, out, outP>>

appVars == <<currentState, disabled, timerInterval, intervals, geolocation, geoRequests, runs, sessions, errorActions, files>>

swVars == <<cache, reachable, served>>

hostVars == <<currentPolygon, position, circuitInput, normalized, appVars, swVars>>

vars == <<circuitVars, hostVars, loop>>

(***************************************************************************)
(* Parameters                                                              *)
(***************************************************************************)
\* field modulus (scaled BN254 prime)
P == 1931
\* width of the full-field bit decomposition (scaled 254)
NBits == 11
\* grid_bits the templates are instantiated with in the exhaustive runs
GridBits == 2
\* number of polygon vertices n in the exhaustive runs
N == 3
\* number of polygon vertices n of SimplePolygon in the exhaustive runs
NSimple == 4

\* the largest polygon whose pair enumeration is unrolled
LoopN == 8
\* grid_bits of the concrete 8-vertex square scenario (coordinates up to 20)
ScenarioGridBits == 5

\* polygons.ts: a latitude or longitude is counted in 1/SubSteps of 0.0001 degree
SubSteps == 2
\* largest |longitude| and |latitude|, in 0.0001 degree (scaled 180 and 90 degrees)
MaxLon == 2
MaxLat == 1
\* width of the circuit grid of polygons.ts (scaled 32)
HostGridBits == 4
\* number of vertices of the selected polygon in the exhaustive runs
NHost == 3
\* largest number of vertices handed to normalizePolygonTo8Vertices
MaxVertices == 9
\* main.ts: largest accuracy (meters) that starts the proof without asking
AccuracyLimit == 100
\* number of proof sessions (and position requests) started in one run of the page
MaxSessions == 2

\* the constraints have no satisfying assignment / the witness generator fails
NoWitness == -1
\* the output signal has not been computed yet
Pending == -2

Pow2(k) == 2 ^ k

\* canonical representative of an integer in the field
F(x) == x % P

Field == 0 .. (P - 1)

(***************************************************************************)
(* circomlib gadgets (bitify, comparators, compconstant, sign)             *)
(***************************************************************************)
\* Num2Bits(n): the bit vectors b (read as the integer sum b_i 2^i) accepted
\* by  b_i (b_i - 1) = 0  and  sum b_i 2^i === in  (equality in the field)
Num2Bits(n, in) == { d \in {in, in + P} : d < Pow2(n) }

\* the bits the witness generator assigns: out[i] <-- (in >> i) & 1
Num2BitsWitness(n, in) == IF in < Pow2(n) THEN in ELSE NoWitness

\* CompConstant(ct): 1 iff the number encoded by the bits exceeds ct
CompConstant(ct, bits) == IF bits > ct THEN 1 ELSE 0

\* Sign(): 1 iff the number encoded by the bits exceeds (p-1)/2
Sign(bits) == CompConstant((P - 1) \div 2, bits)

IsZero(in) == IF in = 0 THEN 1 ELSE 0

IsEqual(a, b) == IsZero(F(b - a))

\* LessThan(n): Num2Bits(n+1) of in[0] + 2^n - in[1]; out = 1 - top bit
LessThan(n, a, b) ==
    LET v == Num2BitsWitness(n + 1, F(a + Pow2(n) - b))
    IN  IF v = NoWitness THEN NoWitness ELSE 1 - ((v \div Pow2(n)) % 2)

LessEqThan(n, a, b) == LessThan(n, a, F(b + 1))

GreaterThan(n, a, b) == LessThan(n, b, a)

(***************************************************************************)
(* Utility.circom                                                          *)
(***************************************************************************)
Multiplier2(in1, in2) == F(in1 * in2)

\* chain of Multiplier2 over in[1..k], left to right
RECURSIVE MultChain(_, _)
MultChain(in, k) ==
    IF k = 1 THEN in[1] ELSE Multiplier2(MultChain(in, k - 1), in[k])

MultiplierN(in) == MultChain(in, Len(in))

\* Comp(ct), witness generator: canonical bits of in
Comp(ct, in) == CompConstant(ct, Num2BitsWitness(NBits, in))

\* Comp(ct), constraint system: every accepted bit vector
CompOuts(ct, in) == { CompConstant(ct, d) : d \in Num2Bits(NBits, in) }

\* slip: the pair is passed through without the swap
Order_NoSwap(grid_bits, a, b) ==
    LET gt == GreaterThan(grid_bits, a, b)
    IN  IF gt = NoWitness THEN <<NoWitness, NoWitness>>
        ELSE <<a, b>>

Order(grid_bits, a, b) ==
    LET gt == GreaterThan(grid_bits, a, b)
    IN  IF gt = NoWitness THEN <<NoWitness, NoWitness>>
        ELSE <<F((b - a) * gt + a), F((a - b) * gt + b)>>

(***************************************************************************)
(* Lines.circom                                                            *)
(* A point is <<x, y>>, a line is <<p0, p1>>; signal index [k] of the      *)
(* source is tuple index [k + 1].                                          *)
(***************************************************************************)
\* signal f of Orientation: the cross-product term, as a field element
OrientationF(points) ==
    LET part == F((points[2][2] - points[1][2]) * (points[3][1] - points[2][1]))
    IN  F(part - (points[3][2] - points[2][2]) * (points[2][1] - points[1][1]))

\* slip: the sign bit is left out of the output
OrientationOut_NoSign(f, bits) == 1 - IsZero(f)

\* out of Orientation when num2Bits.out encodes the integer bits
OrientationOut(f, bits) ==
    LET nonZero == 1 - IsZero(f)
        o       == F(nonZero * (Sign(bits) + 1))
        x       == F(o * (o - 1))
    IN  IF F(x * (o - 2)) = 0 THEN o ELSE NoWitness

\* Orientation, witness generator
Orientation(points) ==
    LET f == OrientationF(points)
    IN  OrientationOut(f, Num2BitsWitness(NBits, f))

\* Orientation, constraint system: the outputs over every accepted bit vector
OrientationOuts(points) ==
    LET f == OrientationF(points)
    IN  { OrientationOut(f, d) : d \in Num2Bits(NBits, f) } \ {NoWitness}

\* slip: the endpoints are compared in the order given, without Order
InRect_Unordered(grid_bits, line, pt) ==
    LET aboveMinX == LessEqThan(grid_bits, line[1][1], pt[1])
        belowMaxX == LessEqThan(grid_bits, pt[1], line[2][1])
        aboveMinY == LessEqThan(grid_bits, line[1][2], pt[2])
        belowMaxY == LessEqThan(grid_bits, pt[2], line[2][2])
    IN  IF NoWitness \in {aboveMinX, belowMaxX, aboveMinY, belowMaxY}
        THEN NoWitness
        ELSE F(F(aboveMinX * belowMaxX) * F(aboveMinY * belowMaxY))

InRect(grid_bits, line, pt) ==
    LET ordered_x == Order(grid_bits, line[1][1], line[2][1])
        ordered_y == Order(grid_bits, line[1][2], line[2][2])
    IN  IF ordered_x[1] = NoWitness \/ ordered_y[1] = NoWitness THEN NoWitness
        ELSE
        LET aboveMinX == LessEqThan(grid_bits, ordered_x[1], pt[1])
            belowMaxX == LessEqThan(grid_bits, pt[1], ordered_x[2])
            aboveMinY == LessEqThan(grid_bits, ordered_y[1], pt[2])
            belowMaxY == LessEqThan(grid_bits, pt[2], ordered_y[2])
        IN  IF NoWitness \in {aboveMinX, belowMaxX, aboveMinY, belowMaxY}
            THEN NoWitness
            ELSE
            LET on_x_projection == F(aboveMinX * belowMaxX)
                on_y_projection == F(aboveMinY * belowMaxY)
                o               == F(on_x_projection * on_y_projection)
            IN  IF F(o * (o - 1)) = 0 THEN o ELSE NoWitness

\* the points handed to orientation[0..3]
OrientationPoints(l1, l2) ==
    << <<l1[1], l1[2], l2[1]>>, <<l1[1], l1[2], l2[2]>>,
       <<l2[1], l2[2], l1[1]>>, <<l2[1], l2[2], l1[2]>> >>

\* the outputs of inRect[0..3]
InRects(grid_bits, l1, l2) ==
    << InRect(grid_bits, l1, l2[1]), InRect(grid_bits, l1, l2[2]),
       InRect(grid_bits, l2, l1[1]), InRect(grid_bits, l2, l1[2]) >>

\* slip: only line2 is constrained to have two distinct endpoints
NonDegenerate_Line2Only(l1, l2) ==
    F(IsEqual(l2[1][1], l2[2][1]) * IsEqual(l2[1][2], l2[2][2])) = 0

\* eq[0].out * eq[1].out === 0  and  eq[2].out * eq[3].out === 0
NonDegenerate(l1, l2) ==
    /\ F(IsEqual(l1[1][1], l1[2][1]) * IsEqual(l1[1][2], l1[2][2])) = 0
    /\ F(IsEqual(l2[1][1], l2[2][1]) * IsEqual(l2[1][2], l2[2][2])) = 0

\* slip: the collinear special case is left out
IntersectsOut_GeneralOnly(l1, l2, o, r) ==
    IF ~NonDegenerate(l1, l2) THEN NoWitness
    ELSE IF \E i \in 1..4 : o[i] = NoWitness \/ r[i] = NoWitness
    THEN NoWitness
    ELSE 1 - IsZero(F((o[1] - o[2]) * (o[3] - o[4])))

\* slip: only the special cases relative to line1 are looked at (sc2 dropped)
IntersectsOut_Line1Only(l1, l2, o, r) ==
    IF ~NonDegenerate(l1, l2) THEN NoWitness
    ELSE IF \E i \in 1..4 : o[i] = NoWitness \/ r[i] = NoWitness
    THEN NoWitness
    ELSE
    LET general_intersection == F((o[1] - o[2]) * (o[3] - o[4]))
        sc1                  == F(F(o[1] + 1 - r[1]) * F(o[2] + 1 - r[2]))
        not_out              == F(IsZero(general_intersection) * sc1)
    IN  IsZero(not_out)

\* out of Intersects when orientation[0..3] output o and inRect[0..3] output r
IntersectsOut(l1, l2, o, r) ==
    IF ~NonDegenerate(l1, l2) THEN NoWitness
    ELSE IF \E i \in 1..4 : o[i] = NoWitness \/ r[i] = NoWitness
    THEN NoWitness
    ELSE
    LET general_intersection == F((o[1] - o[2]) * (o[3] - o[4]))
        sc1             == F(F(o[1] + 1 - r[1]) * F(o[2] + 1 - r[2]))
        sc2             == F(F(o[3] + 1 - r[3]) * F(o[4] + 1 - r[4]))
        no_special_case == F(sc1 * sc2)
        not_out         == F(IsZero(general_intersection) * no_special_case)
    IN  IsZero(not_out)

\* Intersects, witness generator
Intersects(grid_bits, l1, l2) ==
    LET ps == OrientationPoints(l1, l2)
    IN  IntersectsOut(l1, l2,
                      <<Orientation(ps[1]), Orientation(ps[2]),
                        Orientation(ps[3]), Orientation(ps[4])>>,
                      InRects(grid_bits, l1, l2))

\* Intersects, constraint system: one independent Orientation per index
IntersectsOuts(grid_bits, l1, l2) ==
    LET ps == OrientationPoints(l1, l2)
        r  == InRects(grid_bits, l1, l2)
    IN  { IntersectsOut(l1, l2, <<a, b, c, d>>, r) :
            a \in OrientationOuts(ps[1]), b \in OrientationOuts(ps[2]),
            c \in OrientationOuts(ps[3]), d \in OrientationOuts(ps[4]) }
        \ {NoWitness}

\* slip: the bounding-box factor is left out of the product
OnSegment_CollinearOnly(grid_bits, line, pt) ==
    LET inRectC      == InRect(grid_bits, line, pt)
        orientationC == Orientation(<<line[1], line[2], pt>>)
    IN  IF inRectC = NoWitness \/ orientationC = NoWitness THEN NoWitness
        ELSE IsZero(orientationC)

\* OnSegment, witness generator
OnSegment(grid_bits, line, pt) ==
    LET inRectC      == InRect(grid_bits, line, pt)
        orientationC == Orientation(<<line[1], line[2], pt>>)
    IN  IF inRectC = NoWitness \/ orientationC = NoWitness THEN NoWitness
        ELSE F(IsZero(orientationC) * inRectC)

\* OnSegment, constraint system: the outputs over every accepted Orientation
OnSegmentOuts(grid_bits, line, pt) ==
    LET inRectC == InRect(grid_bits, line, pt)
    IN  IF inRectC = NoWitness THEN {}
        ELSE { F(IsZero(orientationC) * inRectC) :
                 orientationC \in OrientationOuts(<<line[1], line[2], pt>>) }

(***************************************************************************)
(* PointInPolygon.circom                                                   *)
(* A polygon is a sequence of n points; vertex i of the source is poly[i+1]*)
(***************************************************************************)
\* slip: the ray starts at the origin instead of (0, y)
Ray_FromOrigin(pt) == <<<<0, 0>>, pt>>

\* line1 of intersections[i]: the ray from (0, y) to (x, y)
Ray(pt) == <<<<0, pt[2]>>, pt>>

\* line2 of intersections[i]: vertex i to vertex (i + 1) % n
Edge(poly, i) == <<poly[i], poly[(i % Len(poly)) + 1]>>

\* every coordinate of the polygon and of the point
Coordinates(pt, poly) ==
    {pt[1], pt[2]} \cup UNION { {poly[i][1], poly[i][2]} : i \in 1..Len(poly) }

\* slip: the point is not range-checked
RangeChecked_PolygonOnly(grid_bits, pt, poly) ==
    \A i \in 1..Len(poly), k \in 1..2 : Comp(Pow2(grid_bits) - 1, poly[i][k]) = 0

\* x_comp[i].out === 0, y_comp[i].out === 0, comp[i].out === 0 (witness generator)
RangeChecked(grid_bits, pt, poly) ==
    \A c \in Coordinates(pt, poly) : Comp(Pow2(grid_bits) - 1, c) = 0

\* the same constraints: some accepted bit vector makes Comp output 0
RangeSatisfiable(grid_bits, pt, poly) ==
    \A c \in Coordinates(pt, poly) : 0 \in CompOuts(Pow2(grid_bits) - 1, c)

\* slip: the constraint on x_zero[i].out is left out
XNonZero_Unconstrained(poly) == TRUE

\* x_zero[i].out === 0
XNonZero(poly) == \A i \in 1..Len(poly) : IsZero(poly[i][1]) = 0

\* slip: the differences are taken on the x coordinate
NotOnVertexLine_X(pt, poly) ==
    1 - IsZero(MultiplierN([i \in 1..Len(poly) |-> F(poly[i][1] - pt[1])]))

\* signal not_on_vertex_line
NotOnVertexLine(pt, poly) ==
    1 - IsZero(MultiplierN([i \in 1..Len(poly) |-> F(poly[i][2] - pt[2])]))

RECURSIVE SumTo(_, _)
SumTo(f, k) == IF k = 0 THEN 0 ELSE SumTo(f, k - 1) + f[k]

\* slip: the parity is read from bit 1 of the count
RayTracingOut_Bit1(pt, poly, rangeOK, iout) ==
    LET n == Len(poly)
    IN  IF ~rangeOK \/ ~XNonZero(poly) THEN NoWitness
        ELSE IF \E i \in 1..n : iout[i] = NoWitness THEN NoWitness
        ELSE F(((SumTo(iout, n) \div 2) % 2) * NotOnVertexLine(pt, poly))

\* slip: the count itself is multiplied in, its parity bit is not taken and
\* the per-edge outputs are not constrained
RayTracingOut_Count(pt, poly, rangeOK, iout) ==
    LET n == Len(poly)
    IN  IF ~rangeOK \/ ~XNonZero(poly) THEN NoWitness
        ELSE IF \E i \in 1..n : iout[i] = NoWitness THEN NoWitness
        ELSE F(F(SumTo(iout, n)) * NotOnVertexLine(pt, poly))

\* out of RayTracing when the range checks are met (or not) and the n
\* Intersects components output iout[1..n]
RayTracingOut(pt, poly, rangeOK, iout) ==
    LET n == Len(poly)
    IN  IF ~rangeOK \/ ~XNonZero(poly) THEN NoWitness
        ELSE IF \E i \in 1..n : iout[i] = NoWitness THEN NoWitness
        ELSE IF \E i \in 1..n : F(iout[i] * (iout[i] - 1)) # 0 THEN NoWitness
        ELSE
        LET intersection_count == F(SumTo(iout, n))
            num2Bits           == Num2BitsWitness(n + 1, intersection_count)
            odd_intersections  == num2Bits % 2
        IN  IF num2Bits = NoWitness THEN NoWitness
            ELSE F(odd_intersections * NotOnVertexLine(pt, poly))

\* the outputs of intersections[0..k-1], witness generator
RECURSIVE EdgeIntersects(_, _, _, _)
EdgeIntersects(grid_bits, pt, poly, k) ==
    IF k = 0 THEN <<>>
    ELSE Append(EdgeIntersects(grid_bits, pt, poly, k - 1),
                Intersects(grid_bits, Ray(pt), Edge(poly, k)))

\* every combination of outputs of intersections[0..k-1] a prover can reach
RECURSIVE EdgeIntersectsOuts(_, _, _, _)
EdgeIntersectsOuts(grid_bits, pt, poly, k) ==
    IF k = 0 THEN {<<>>}
    ELSE { Append(s, b) : s \in EdgeIntersectsOuts(grid_bits, pt, poly, k - 1),
                          b \in IntersectsOuts(grid_bits, Ray(pt), Edge(poly, k)) }

\* RayTracing(n, grid_bits), witness generator
RayTracing(grid_bits, pt, poly) ==
    RayTracingOut(pt, poly, RangeChecked(grid_bits, pt, poly),
                  EdgeIntersects(grid_bits, pt, poly, Len(poly)))

\* RayTracing(n, grid_bits), constraint system: the outputs a prover can reach
RayTracingOuts(grid_bits, pt, poly) ==
    IF ~RangeSatisfiable(grid_bits, pt, poly) \/ ~XNonZero(poly) THEN {}
    ELSE { RayTracingOut(pt, poly, TRUE, io) :
             io \in EdgeIntersectsOuts(grid_bits, pt, poly, Len(poly)) }
         \ {NoWitness}

\* var c = (n - 2) * (n - 1) / 2 - 1: the operator / of circom divides in the
\* field, that is, multiplies by the inverse of 2
cIntersects(n) == F(F((n - 2) * (n - 1)) * ((P + 1) \div 2) - 1)

\* slip: the wrap-around test (j + 1) % n != i is left out
PairChecked_NoWrap(n, i, j) ==
    /\ j # i
    /\ (i + 1) % n # j
    /\ i < j

\* the condition under which the body of the double loop runs for (i, j)
PairChecked(n, i, j) ==
    /\ j # i
    /\ (j + 1) % n # i
    /\ (i + 1) % n # j
    /\ i < j

\* the pairs (i, j) of edges handed to intersects[index], in the order of the
\* two loops (0-based, as in the source)
SimplePairs(n) ==
    LET all == [k \in 1..(n * n) |-> <<(k - 1) \div n, (k - 1) % n>>]
        Checked(pr) == /\ pr[2] # pr[1]
                       /\ (pr[2] + 1) % n # pr[1]
                       /\ (pr[1] + 1) % n # pr[2]
                       /\ pr[1] < pr[2]
    IN  SelectSeq(all, Checked)

\* the outputs of intersects[0..c-1], witness generator
SimpleIntersects(grid_bits, poly) ==
    LET pairs == SimplePairs(Len(poly))
    IN  [k \in 1..Len(pairs) |->
           Intersects(grid_bits, Edge(poly, pairs[k][1] + 1), Edge(poly, pairs[k][2] + 1))]

\* the outputs of onSegment[0..2n-1], witness generator
SimpleOnSegments(grid_bits, poly) ==
    LET n == Len(poly)
    IN  [k \in 1..(2 * n) |->
           LET i == (k - 1) \div 2
           IN  IF (k - 1) % 2 = 0
               THEN OnSegment(grid_bits, Edge(poly, i + 1), poly[((i + 2) % n) + 1])
               ELSE OnSegment(grid_bits, Edge(poly, ((i + 1) % n) + 1), poly[i + 1])]

\* slip: the pairwise intersections are left out of the product
SimplePolygonOut_OnSegmentOnly(iout, sout) ==
    IF \E k \in 1..Len(iout) : iout[k] = NoWitness THEN NoWitness
    ELSE IF \E k \in 1..Len(sout) : sout[k] = NoWitness THEN NoWitness
    ELSE MultiplierN([k \in 1..Len(sout) |-> F(1 - sout[k])])

\* out of SimplePolygon when intersects[] output iout and onSegment[] output sout
SimplePolygonOut(iout, sout) ==
    IF \E k \in 1..Len(iout) : iout[k] = NoWitness THEN NoWitness
    ELSE IF \E k \in 1..Len(sout) : sout[k] = NoWitness THEN NoWitness
    ELSE
    LET hasNoIntersection == MultiplierN([k \in 1..Len(iout) |-> F(1 - iout[k])])
        notOnAnySegment   == MultiplierN([k \in 1..Len(sout) |-> F(1 - sout[k])])
    IN  F(notOnAnySegment * hasNoIntersection)

\* SimplePolygon(n, grid_bits), witness generator
SimplePolygon(grid_bits, poly) ==
    SimplePolygonOut(SimpleIntersects(grid_bits, poly), SimpleOnSegments(grid_bits, poly))

(***************************************************************************)
(* polygons.ts (src/unnamed/part_001)                                      *)
(* A LocalScaled or CircuitGrid coordinate pair is <<x, y>>.               *)
(***************************************************************************)
\* Math.round(num / den): the nearest integer, halves rounded up
MathRound(num, den) == (2 * num + den) \div (2 * den)

SetMin(S) == CHOOSE m \in S : \A v \in S : m <= v

SetMax(S) == CHOOSE m \in S : \A v \in S : v <= m

\* Math.round(lon * 10000), Math.round(lat * 10000)
geoDegreesToLocalScaledPoint(lat, lon) ==
    <<MathRound(lon, SubSteps), MathRound(lat, SubSteps)>>

gridCenter == Pow2(HostGridBits - 1)

\* slip: the grid centre is not added
toGrid_NoCenter(coord, sumX, sumY) ==
    <<(2 * coord[1] - sumX) \div 2, (2 * coord[2] - sumY) \div 2>>

\* Math.floor((x - centerX) + gridCenter) with centerX = sumX / 2
toGrid(coord, sumX, sumY) ==
    <<((2 * coord[1] - sumX) \div 2) + gridCenter,
      ((2 * coord[2] - sumY) \div 2) + gridCenter>>

localScaledToCircuitGrid(userPoint, polygonCoords) ==
    LET allX == {polygonCoords[i][1] : i \in 1..Len(polygonCoords)} \cup {userPoint[1]}
        allY == {polygonCoords[i][2] : i \in 1..Len(polygonCoords)} \cup {userPoint[2]}
        sumX == SetMin(allX) + SetMax(allX)
        sumY == SetMin(allY) + SetMax(allY)
    IN  [point   |-> toGrid(userPoint, sumX, sumY),
         polygon |-> [i \in 1..Len(polygonCoords) |-> toGrid(polygonCoords[i], sumX, sumY)]]

prepareCircuitInput(userLat, userLon, coordinates) ==
    localScaledToCircuitGrid(geoDegreesToLocalScaledPoint(userLat, userLon), coordinates)

\* a coordinate that is NaN (never equal to anything, itself included)
NaN == -1000

IsNaNPoint(pt) == pt[1] = NaN \/ pt[2] = NaN

\* pt !== comparison of two vertices, coordinate by coordinate
SameVertex(a, b) == ~IsNaNPoint(a) /\ ~IsNaNPoint(b) /\ a = b

\* poly.filter: keeps index 0 and every vertex that differs from its predecessor
RECURSIVE sanitizePrefix(_, _)
sanitizePrefix(poly, k) ==
    IF k = 0 THEN <<>>
    ELSE IF k = 1 \/ ~SameVertex(poly[k], poly[k - 1])
         THEN Append(sanitizePrefix(poly, k - 1), poly[k])
         ELSE sanitizePrefix(poly, k - 1)

sanitizePolygon(poly) == sanitizePrefix(poly, Len(poly))

\* the sum a of signedArea before the division by 2, over edges 1..k
RECURSIVE areaSum(_, _)
areaSum(poly, k) ==
    IF k = 0 THEN 0
    ELSE LET p1 == poly[k]
             p2 == poly[(k % Len(poly)) + 1]
         IN  areaSum(poly, k - 1) + p1[1] * p2[2] - p2[1] * p1[2]

\* signedArea(poly) < 0; a NaN coordinate makes the area NaN and the test false
signedAreaNegative(poly) ==
    /\ \A i \in 1..Len(poly) : ~IsNaNPoint(poly[i])
    /\ areaSum(poly, Len(poly)) < 0

reverse(poly) == [i \in 1..Len(poly) |-> poly[Len(poly) + 1 - i]]

ensureCCW(poly) == IF signedAreaNegative(poly) THEN reverse(poly) ELSE poly

removeClosingDuplicate(poly) ==
    IF Len(poly) > 2 /\ poly[1] = poly[Len(poly)]
    THEN SubSeq(poly, 1, Len(poly) - 1)
    ELSE poly

\* Math.sqrt(dx * dx + dy * dy), for the vertex sets of the model, whose
\* pairwise distances are integers
edgeLen(p1, p2) ==
    LET dx == p2[1] - p1[1]
        dy == p2[2] - p1[2]
    IN  CHOOSE l \in 0 .. (dx * dx + dy * dy) : l * l = dx * dx + dy * dy

\* acc after edges 1..k of the perimeter walk
RECURSIVE perimeterTo(_, _)
perimeterTo(poly, k) ==
    IF k = 0 THEN 0
    ELSE perimeterTo(poly, k - 1) + edgeLen(poly[k], poly[(k % Len(poly)) + 1])

\* result[i] of makeSafeEightPolygon, in exact arithmetic: the point at
\* distance (i / 8) * totalLength along the perimeter, moved by the jitter
\* (+0.5, -0.5) for even i and (-0.5, +0.5) for odd i, then Math.round
perimeterSample(poly, i) ==
    LET n     == Len(poly)
        T     == i * perimeterTo(poly, n)          \* 8 * targetDist
        e     == CHOOSE k \in 1..n :
                    /\ 8 * perimeterTo(poly, k) >= T
                    /\ \A j \in 1..(k - 1) : 8 * perimeterTo(poly, j) < T
        p1    == poly[e]
        p2    == poly[(e % n) + 1]
        num   == T - 8 * perimeterTo(poly, e - 1)  \* 8 * (targetDist - acc)
        den   == 8 * edgeLen(p1, p2)               \* 8 * e.len
    IN  IF den = 0 THEN <<NaN, NaN>>               \* t = 0 / 0
        ELSE << ((p1[1] * den + (p2[1] - p1[1]) * num) \div den) + (IF i % 2 = 0 THEN 1 ELSE 0),
                ((p1[2] * den + (p2[2] - p1[2]) * num) \div den) + (IF i % 2 = 1 THEN 1 ELSE 0) >>

makeSafeEightPolygon(poly0) ==
    LET poly == ensureCCW(removeClosingDuplicate(poly0))
    IN  ensureCCW([i \in 1..8 |-> perimeterSample(poly, i - 1)])

\* normalizePolygonTo8Vertices: threw, or the polygon returned
normalizePolygonTo8Vertices(coordinates) ==
    LET poly == ensureCCW(removeClosingDuplicate(coordinates))
    IN  IF Len(poly) = 8
        THEN [threw |-> FALSE, polygon |-> sanitizePolygon(poly)]
        ELSE LET result == makeSafeEightPolygon(poly)
             IN  IF Len(result) # 8
                 THEN [threw |-> TRUE, polygon |-> <<>>]
                 ELSE [threw |-> FALSE, polygon |-> result]

(***************************************************************************)
(* db.ts and main.ts (src/client/src)                                      *)
(***************************************************************************)
\* Date.now(): the model has a single instant
Now == 0

\* saveGNSS: the object handed to store.put
saveGNSS(sessionId, fix) ==
    [session_id     |-> sessionId,
     lat            |-> fix.lat,
     lon            |-> fix.lon,
     accuracy       |-> fix.accuracy,
     gnss_timestamp |-> fix.timestamp,
     created_at     |-> Now]

\* the record stored under a session id, or the empty record
getProofBySessionId(store, sessionId) ==
    IF sessionId \in DOMAIN store THEN store[sessionId] ELSE <<>>

\* every record of the store
getAllProofs(store) == { store[s] : s \in DOMAIN store }

\* formatProofForDownload: reads proof.timestamp and proof.proof.pi_a, so it
\* throws on a record without these fields (no file is produced)
CanFormatProofForDownload(proof) == {"timestamp", "proof"} \subseteq DOMAIN proof

formatProofForDownload(proof, polygonName, polygonHash) ==
    [version      |-> "1.0",
     proof_type   |-> "presence_proof",
     generated_at |-> proof.timestamp,
     project      |-> [boundary_name |-> polygonName, boundary_hash |-> polygonHash],
     claim        |-> [inside_boundary |-> ("publicSignals" \in DOMAIN proof
                                               /\ proof.publicSignals[1] = "1"),
                       timestamp       |-> proof.timestamp],
     zk           |-> [proof |-> proof.proof,
                       public_inputs |-> [boundary_hash |-> polygonHash,
                                          timestamp     |-> proof.timestamp]]]

(***************************************************************************)
(* Reference geometry over the integers (no field, no gadgets)             *)
(***************************************************************************)
Sgn(v) == IF v > 0 THEN 1 ELSE IF v < 0 THEN -1 ELSE 0

Min2(a, b) == IF a < b THEN a ELSE b

Max2(a, b) == IF a < b THEN b ELSE a

\* twice the signed area of the triangle a, b, c
Cross(a, b, c) == (b[1] - a[1]) * (c[2] - a[2]) - (b[2] - a[2]) * (c[1] - a[1])

Dot(a, b, c) == (b[1] - a[1]) * (c[1] - a[1]) + (b[2] - a[2]) * (c[2] - a[2])

\* p lies on the closed segment a-b
RefOnSegment(a, b, p) == Cross(a, b, p) = 0 /\ Dot(p, a, b) <= 0

\* the closed segments a-b and c-d share a point: solve a + s(b-a) = c + t(d-c)
\* by Cramer's rule; parallel segments are compared on the line's parameter
RefIntersect(a, b, c, d) ==
    LET den == (b[1] - a[1]) * (d[2] - c[2]) - (b[2] - a[2]) * (d[1] - c[1])
        sn  == (c[1] - a[1]) * (d[2] - c[2]) - (c[2] - a[2]) * (d[1] - c[1])
        tn  == (c[1] - a[1]) * (b[2] - a[2]) - (c[2] - a[2]) * (b[1] - a[1])
    IN  IF den # 0
        THEN /\ Sgn(sn) * Sgn(den) >= 0 /\ sn * Sgn(den) <= den * Sgn(den)
             /\ Sgn(tn) * Sgn(den) >= 0 /\ tn * Sgn(den) <= den * Sgn(den)
        ELSE /\ tn = 0
             /\ LET len == Dot(a, b, b)
                    t0  == Dot(a, b, c)
                    t1  == Dot(a, b, d)
                IN  Max2(Min2(t0, t1), 0) <= Min2(Max2(t0, t1), len)

\* edge i of the closed polygon: vertex i to its cyclic successor
RefEdge(poly, i) == <<poly[i], IF i = Len(poly) THEN poly[1] ELSE poly[i + 1]>>

\* edge a-b is crossed by the horizontal ray (0, p.y) -> (p.x, p.y); meant for
\* a ray through no vertex: the endpoints are strictly on either side and the
\* crossing abscissa is at most p.x
RefRayCrosses(p, a, b) ==
    /\ (a[2] - p[2]) * (b[2] - p[2]) < 0
    /\ ((a[1] - p[1]) * (b[2] - a[2]) + (p[2] - a[2]) * (b[1] - a[1]))
          * Sgn(b[2] - a[2]) <= 0

RefCrossings(p, poly) ==
    Cardinality({ i \in 1..Len(poly) : RefRayCrosses(p, RefEdge(poly, i)[1], RefEdge(poly, i)[2]) })

RefOnBoundary(p, poly) ==
    \E i \in 1..Len(poly) : RefOnSegment(RefEdge(poly, i)[1], RefEdge(poly, i)[2], p)

\* crossing number of the opposite ray (towards +x), half-open rule
RefRightCrosses(p, a, b) ==
    /\ (a[2] > p[2]) # (b[2] > p[2])
    /\ ((a[1] - p[1]) * (b[2] - a[2]) + (p[2] - a[2]) * (b[1] - a[1]))
          * Sgn(b[2] - a[2]) > 0

RefStrictlyInside(p, poly) ==
    /\ ~RefOnBoundary(p, poly)
    /\ Cardinality({ i \in 1..Len(poly) :
                       RefRightCrosses(p, RefEdge(poly, i)[1], RefEdge(poly, i)[2]) }) % 2 = 1

\* no repeated vertex on an edge, adjacent edges meet only in their common
\* vertex, non-adjacent edges are disjoint
RefSimple(poly) ==
    LET n == Len(poly)
    IN  /\ \A i \in 1..n : RefEdge(poly, i)[1] # RefEdge(poly, i)[2]
        /\ \A i \in 1..n :
              LET j == (i % n) + 1
              IN  /\ ~RefOnSegment(RefEdge(poly, i)[1], RefEdge(poly, i)[2], RefEdge(poly, j)[2])
                  /\ ~RefOnSegment(RefEdge(poly, j)[1], RefEdge(poly, j)[2], RefEdge(poly, i)[1])
        /\ \A i, j \in 1..n :
              (i < j /\ (i % n) + 1 # j /\ (j % n) + 1 # i) =>
                 ~RefIntersect(RefEdge(poly, i)[1], RefEdge(poly, i)[2],
                               RefEdge(poly, j)[1], RefEdge(poly, j)[2])

ShareY(p, poly) == \E i \in 1..Len(poly) : poly[i][2] = p[2]

(***************************************************************************)
(* Inputs                                                                  *)
(***************************************************************************)
Grid == 0 .. (Pow2(GridBits) - 1)

GridPoints == Grid \X Grid

\* vertices that pass x_zero
Vertices == (Grid \ {0}) \X Grid

NoPoint == <<0, 0>>

NoLine == <<NoPoint, NoPoint>>

NoPolygon == <<>>

\* the prover's output: any element of outs, or no witness at all
Reach(outs) == IF outs = {} THEN {NoWitness} ELSE outs

NoFix == [lat |-> 0, lon |-> 0, accuracy |-> 0, timestamp |-> 0]

NoInput == [point |-> NoPoint, polygon |-> NoPolygon]

NotNormalized == [threw |-> FALSE, polygon |-> NoPolygon]

NoFetch == [request |-> "", from |-> ""]

\* no service worker is registered
SwIdle ==
    /\ cache = {}
    /\ reachable = {}
    /\ served = NoFetch

\* a function with an empty domain: no session yet
NoSessions == <<>>

\* the page of main.ts is not open
AppIdle ==
    /\ currentState = "idle"
    /\ disabled = FALSE
    /\ timerInterval = 0
    /\ intervals = 0
    /\ geolocation = TRUE
    /\ geoRequests = 0
    /\ runs = NoSessions
    /\ sessions = NoSessions
    /\ errorActions = {}
    /\ files = {}
    /\ SwIdle

\* the host code is not running
HostIdle ==
    /\ currentPolygon = NoPolygon
    /\ position = NoFix
    /\ circuitInput = NoInput
    /\ normalized = NotNormalized
    /\ AppIdle

\* no template is being instantiated
NoLoop == [n |-> 0, i |-> 0, j |-> 0, index |-> 0, intersects |-> {}]

LoopIdle == loop = NoLoop

\* no template is under test
CircuitIdle ==
    /\ gridbits = GridBits
    /\ point = NoPoint
    /\ polygon = NoPolygon
    /\ line1 = NoLine
    /\ line2 = NoLine
    /\ out = Pending
    /\ outP = Pending

(***************************************************************************)
(* RayTracing(n, gridbits)                                                *)
(***************************************************************************)
\* witness generation: the output signal computed from the inputs
RayWitnessGen ==
    /\ gadget = "RayTracing"
    /\ pc = "input"
    /\ out' = RayTracing(gridbits, point, polygon)
    /\ pc' = "witness"
    /\ UNCHANGED <<gadget, gridbits, point, polygon, line1, line2, outP>>
    /\ UNCHANGED <<hostVars, loop>>

\* a prover assigns the intermediate signals freely, subject to the constraints
RayProver ==
    /\ gadget = "RayTracing"
    /\ pc = "witness"
    /\ outP' \in Reach(RayTracingOuts(gridbits, point, polygon))
    /\ pc' = "proved"
    /\ UNCHANGED <<gadget, gridbits, point, polygon, line1, line2, out>>
    /\ UNCHANGED <<hostVars, loop>>

\* position of a grid point in the row-major order of the grid
Rank(p) == p[1] * Pow2(GridBits) + p[2]

\* every point of the grid and every N-vertex polygon with non-zero abscissas;
\* a polygon is listed from its smallest vertex (the template treats the
\* vertices cyclically: edge i joins vertex i and vertex (i + 1) % n)
InitRay ==
    /\ gadget = "RayTracing"
    /\ gridbits = GridBits
    /\ point \in GridPoints
    /\ polygon \in [1..N -> Vertices]
    /\ \A i \in 2..N : Rank(polygon[1]) <= Rank(polygon[i])
    /\ line1 = NoLine
    /\ line2 = NoLine
    /\ pc = "input"
    /\ out = Pending
    /\ outP = Pending
    /\ HostIdle
    /\ LoopIdle

NextRay == RayWitnessGen \/ RayProver

SpecRay == InitRay /\ [][NextRay]_vars

(***************************************************************************)
(* RayTracing on inputs taken from the whole field: one coordinate of an   *)
(* in-range input is replaced by an arbitrary field element                *)
(***************************************************************************)
BasePolygon == [i \in 1..N |-> <<1 + (i % 2), i % Pow2(GridBits)>>]

InitRange ==
    /\ gadget = "RayTracing"
    /\ gridbits = GridBits
    /\ point \in GridPoints
    /\ polygon = BasePolygon
    /\ line1 = NoLine
    /\ line2 = NoLine
    /\ pc = "base"
    /\ out = Pending
    /\ outP = Pending
    /\ HostIdle
    /\ LoopIdle

SetPointCoordinate ==
    /\ pc = "base"
    /\ \E k \in 1..2, v \in Field : point' = [point EXCEPT ![k] = v]
    /\ pc' = "input"
    /\ UNCHANGED <<gadget, gridbits, polygon, line1, line2, out, outP>>
    /\ UNCHANGED <<hostVars, loop>>

SetVertexCoordinate ==
    /\ pc = "base"
    /\ \E i \in 1..N, k \in 1..2, v \in Field :
          polygon' = [polygon EXCEPT ![i][k] = v]
    /\ pc' = "input"
    /\ UNCHANGED <<gadget, gridbits, point, line1, line2, out, outP>>
    /\ UNCHANGED <<hostVars, loop>>

NextRange == SetPointCoordinate \/ SetVertexCoordinate \/ RayWitnessGen \/ RayProver

SpecRange == InitRange /\ [][NextRange]_vars

(***************************************************************************)
(* The square (0,0),(10,0),(10,10),(0,10) padded to 8 vertices: one extra  *)
(* vertex on each edge, k steps from the edge's first corner (k = 0 or 10  *)
(* repeats a corner)                                                       *)
(***************************************************************************)
Side == 10

PaddedSquare(k1, k2, k3, k4) ==
    << <<0, 0>>,       <<k1, 0>>,
       <<Side, 0>>,    <<Side, k2>>,
       <<Side, Side>>, <<Side - k3, Side>>,
       <<0, Side>>,    <<0, Side - k4>> >>

InitScenario ==
    /\ gadget = "RayTracing"
    /\ gridbits = ScenarioGridBits
    /\ point \in {<<5, 5>>, <<20, 20>>}
    /\ \E k1, k2, k3, k4 \in 0..Side : polygon = PaddedSquare(k1, k2, k3, k4)
    /\ line1 = NoLine
    /\ line2 = NoLine
    /\ pc = "input"
    /\ out = Pending
    /\ outP = Pending
    /\ HostIdle
    /\ LoopIdle

SpecScenario == InitScenario /\ [][NextRay]_vars

(***************************************************************************)
(* Intersects, OnSegment and Orientation on every input of the grid        *)
(***************************************************************************)
InitLines ==
    /\ gadget \in {"Intersects", "OnSegment", "Orientation", "InRect", "Order"}
    /\ gridbits = GridBits
    /\ line1 \in IF gadget = "Order" THEN {NoLine} ELSE GridPoints \X GridPoints
    /\ line2 \in IF gadget = "Intersects" THEN GridPoints \X GridPoints ELSE {NoLine}
    /\ point \in IF gadget = "Intersects" THEN {NoPoint} ELSE GridPoints
    /\ polygon = NoPolygon
    /\ pc = "input"
    /\ out = Pending
    /\ outP = Pending
    /\ HostIdle
    /\ LoopIdle

IntersectsWitnessGen ==
    /\ gadget = "Intersects"
    /\ pc = "input"
    /\ out' = Intersects(gridbits, line1, line2)
    /\ pc' = "witness"
    /\ UNCHANGED <<gadget, gridbits, point, polygon, line1, line2, outP>>
    /\ UNCHANGED <<hostVars, loop>>

IntersectsProver ==
    /\ gadget = "Intersects"
    /\ pc = "witness"
    /\ outP' \in Reach(IntersectsOuts(gridbits, line1, line2))
    /\ pc' = "proved"
    /\ UNCHANGED <<gadget, gridbits, point, polygon, line1, line2, out>>
    /\ UNCHANGED <<hostVars, loop>>

OnSegmentWitnessGen ==
    /\ gadget = "OnSegment"
    /\ pc = "input"
    /\ out' = OnSegment(gridbits, line1, point)
    /\ pc' = "witness"
    /\ UNCHANGED <<gadget, gridbits, point, polygon, line1, line2, outP>>
    /\ UNCHANGED <<hostVars, loop>>

OnSegmentProver ==
    /\ gadget = "OnSegment"
    /\ pc = "witness"
    /\ outP' \in Reach(OnSegmentOuts(gridbits, line1, point))
    /\ pc' = "proved"
    /\ UNCHANGED <<gadget, gridbits, point, polygon, line1, line2, out>>
    /\ UNCHANGED <<hostVars, loop>>

InRectWitnessGen ==
    /\ gadget = "InRect"
    /\ pc = "input"
    /\ out' = InRect(gridbits, line1, point)
    /\ pc' = "witness"
    /\ UNCHANGED <<gadget, gridbits, point, polygon, line1, line2, outP>>
    /\ UNCHANGED <<hostVars, loop>>

\* Order takes in[0], in[1] from point and leaves <<out[0], out[1]>> in out
OrderWitnessGen ==
    /\ gadget = "Order"
    /\ pc = "input"
    /\ out' = Order(gridbits, point[1], point[2])
    /\ pc' = "witness"
    /\ UNCHANGED <<gadget, gridbits, point, polygon, line1, line2, outP>>
    /\ UNCHANGED <<hostVars, loop>>

OrientationWitnessGen ==
    /\ gadget = "Orientation"
    /\ pc = "input"
    /\ out' = Orientation(<<line1[1], line1[2], point>>)
    /\ pc' = "witness"
    /\ UNCHANGED <<gadget, gridbits, point, polygon, line1, line2, outP>>
    /\ UNCHANGED <<hostVars, loop>>

OrientationProver ==
    /\ gadget = "Orientation"
    /\ pc = "witness"
    /\ outP' \in Reach(OrientationOuts(<<line1[1], line1[2], point>>))
    /\ pc' = "proved"
    /\ UNCHANGED <<gadget, gridbits, point, polygon, line1, line2, out>>
    /\ UNCHANGED <<hostVars, loop>>

NextLines ==
    \/ IntersectsWitnessGen
    \/ IntersectsProver
    \/ OnSegmentWitnessGen
    \/ OnSegmentProver
    \/ InRectWitnessGen
    \/ OrderWitnessGen
    \/ OrientationWitnessGen
    \/ OrientationProver

SpecLines == InitLines /\ [][NextLines]_vars

(***************************************************************************)
(* SimplePolygon(n, gridbits) on every NSimple-vertex polygon of the grid  *)
(***************************************************************************)
\* the polygon is listed from its smallest vertex (the template enumerates
\* the edges and the vertices cyclically)
InitSimple ==
    /\ gadget = "SimplePolygon"
    /\ gridbits = GridBits
    /\ point = NoPoint
    /\ polygon \in [1..NSimple -> GridPoints]
    /\ \A i \in 2..NSimple : Rank(polygon[1]) <= Rank(polygon[i])
    /\ line1 = NoLine
    /\ line2 = NoLine
    /\ pc = "input"
    /\ out = Pending
    /\ outP = Pending
    /\ HostIdle
    /\ LoopIdle

SimpleWitnessGen ==
    /\ gadget = "SimplePolygon"
    /\ pc = "input"
    /\ out' = SimplePolygon(gridbits, polygon)
    /\ pc' = "witness"
    /\ UNCHANGED <<gadget, gridbits, point, polygon, line1, line2, outP>>
    /\ UNCHANGED <<hostVars, loop>>

NextSimple == SimpleWitnessGen

SpecSimple == InitSimple /\ [][NextSimple]_vars

(***************************************************************************)
(* SimplePolygon(n, gridbits): the double loop over (i, j) that            *)
(* instantiates the components intersects[index], for n = 3..LoopN         *)
(***************************************************************************)
InitLoop ==
    /\ gadget = "SimplePolygon"
    /\ pc = "loop"
    /\ CircuitIdle
    /\ HostIdle
    /\ loop \in { [n |-> m, i |-> 0, j |-> 0, index |-> 0, intersects |-> {}] :
                   m \in 3..LoopN }

\* j++ and, at the end of the inner loop, i++ with j back at 0
NextPair(l) ==
    IF l.j + 1 < l.n THEN [l EXCEPT !.j = @ + 1]
    ELSE [l EXCEPT !.i = @ + 1, !.j = 0]

\* the body of the if: intersects[index] is assigned for (i, j), then index++
InstantiateIntersects ==
    /\ pc = "loop"
    /\ loop.i < loop.n
    /\ PairChecked(loop.n, loop.i, loop.j)
    /\ loop' = NextPair([loop EXCEPT
                  !.intersects = @ \cup {<<loop.index, loop.i, loop.j>>},
                  !.index = @ + 1])
    /\ UNCHANGED <<circuitVars, hostVars>>

\* the condition of the if is false: nothing is instantiated for (i, j)
SkipPair ==
    /\ pc = "loop"
    /\ loop.i < loop.n
    /\ ~PairChecked(loop.n, loop.i, loop.j)
    /\ loop' = NextPair(loop)
    /\ UNCHANGED <<circuitVars, hostVars>>

NextLoop == InstantiateIntersects \/ SkipPair

SpecLoop == InitLoop /\ [][NextLoop]_vars

(***************************************************************************)
(* prepareCircuitInput on every location and every NHost-vertex polygon    *)
(***************************************************************************)
Lats == (-(MaxLat * SubSteps)) .. (MaxLat * SubSteps)

Lons == (-(MaxLon * SubSteps)) .. (MaxLon * SubSteps)

\* LocalScaled coordinates of a polygon: degrees scaled by 10000
LocalPoints == ((-MaxLon) .. MaxLon) \X ((-MaxLat) .. MaxLat)

InitPrepare ==
    /\ gadget = "prepareCircuitInput"
    /\ pc = "input"
    /\ CircuitIdle
    /\ LoopIdle
    /\ currentPolygon \in [1..NHost -> LocalPoints]
    /\ position \in [lat : Lats, lon : Lons, accuracy : {0}, timestamp : {0}]
    /\ circuitInput = NoInput
    /\ normalized = NotNormalized
    /\ AppIdle

PrepareCircuitInput ==
    /\ gadget = "prepareCircuitInput"
    /\ pc = "input"
    /\ circuitInput' = prepareCircuitInput(position.lat, position.lon, currentPolygon)
    /\ pc' = "done"
    /\ UNCHANGED <<gadget, gridbits, point, polygon, line1, line2, out, outP, loop>>
    /\ UNCHANGED <<currentPolygon, position, normalized, appVars, swVars>>

NextPrepare == PrepareCircuitInput

SpecPrepare == InitPrepare /\ [][NextPrepare]_vars

(***************************************************************************)
(* normalizePolygonTo8Vertices on every polygon of 3..MaxVertices vertices *)
(* taken from the corners of a 3-4-5 triangle (integer edge lengths)       *)
(***************************************************************************)
TrianglePoints == {<<0, 0>>, <<3, 0>>, <<0, 4>>}

InitNormalize ==
    /\ gadget = "normalizePolygonTo8Vertices"
    /\ pc = "input"
    /\ CircuitIdle
    /\ LoopIdle
    /\ \E n \in 3..MaxVertices : currentPolygon \in [1..n -> TrianglePoints]
    /\ position = NoFix
    /\ circuitInput = NoInput
    /\ normalized = NotNormalized
    /\ AppIdle

NormalizePolygonTo8Vertices ==
    /\ gadget = "normalizePolygonTo8Vertices"
    /\ pc = "input"
    /\ normalized' = normalizePolygonTo8Vertices(currentPolygon)
    /\ pc' = "done"
    /\ UNCHANGED <<gadget, gridbits, point, polygon, line1, line2, out, outP, loop>>
    /\ UNCHANGED <<currentPolygon, position, circuitInput, appVars, swVars>>

NextNormalize == NormalizePolygonTo8Vertices

SpecNormalize == InitNormalize /\ [][NextNormalize]_vars

(***************************************************************************)
(* The page of main.ts: generate button, geolocation callbacks,            *)
(* proceedWithProof, error card, downloads                                 *)
(***************************************************************************)
\* the selected polygon (scaled stand-in of DEMO_POLYGONS[0])
DemoPolygon == << <<-2, -1>>, <<2, -1>>, <<0, 1>> >>

\* the position fixes the browser can report
Fixes == [lat : {0, MaxLat * SubSteps}, lon : {-1},
          accuracy : {AccuracyLimit, AccuracyLimit + 1}, timestamp : {Now}]

\* what generateLocationProof can resolve with
ProofResults == [proof : {"pi"}, publicSignals : {<<"0">>, <<"1">>}]

IdleRun == [stage |-> "none", gnssFix |-> NoFix, proof |-> "none", publicSignals |-> <<>>]

\* resources of the model left for one more session
Started == Cardinality(DOMAIN runs) + geoRequests

InitApp ==
    /\ gadget = "main.ts"
    /\ pc = "loaded"
    /\ CircuitIdle
    /\ LoopIdle
    /\ currentPolygon = DemoPolygon
    /\ position = NoFix
    /\ circuitInput = NoInput
    /\ normalized = NotNormalized
    /\ currentState = "idle"
    /\ disabled = FALSE
    /\ timerInterval = 0
    /\ intervals = 0
    /\ geolocation \in BOOLEAN
    /\ geoRequests = 0
    /\ runs = NoSessions
    /\ sessions = NoSessions
    /\ errorActions = {}
    /\ files = {}
    /\ SwIdle

\* the generate button and the timer as the handlers find them
Button == [currentState |-> currentState, disabled |-> disabled,
           timerInterval |-> timerInterval, intervals |-> intervals]

\* the handler leaves the button and the timer as b
SetButton(b) ==
    /\ currentState' = b.currentState
    /\ disabled' = b.disabled
    /\ timerInterval' = b.timerInterval
    /\ intervals' = b.intervals

\* timerInterval = window.setInterval(...): the handle kept before is overwritten
startTimer(b) == [b EXCEPT !.timerInterval = 1, !.intervals = @ + 1]

\* if (timerInterval) { clearInterval(timerInterval); timerInterval = null; }
stopTimer(b) ==
    IF b.timerInterval # 0
    THEN [b EXCEPT !.timerInterval = 0, !.intervals = @ - 1]
    ELSE b

\* slip: the timer is not stopped when the button leaves the running states
setProofButtonState_NoStop(b, state) ==
    LET c == [b EXCEPT !.currentState = state,
                       !.disabled = state \in {"acquiring", "generating"}]
    IN  IF state = "acquiring" THEN startTimer(c) ELSE c

setProofButtonState(b, state) ==
    LET c == [b EXCEPT !.currentState = state,
                       !.disabled = state \in {"acquiring", "generating"}]
    IN  CASE state = "acquiring"  -> startTimer(c)
          [] state = "generating" -> c
          [] OTHER                -> stopTimer(c)

\* body of the click listener after its state guard, entered with the button b
StartAcquire(b) ==
    IF geolocation
    THEN /\ SetButton(setProofButtonState(b, "acquiring"))
         /\ geoRequests' = geoRequests + 1
         /\ UNCHANGED errorActions
    ELSE /\ SetButton(b)
         /\ errorActions' = {<<"Dismiss", NoFix>>}
         /\ UNCHANGED geoRequests

\* proceedWithProof up to the await of generateLocationProof
ProceedWithProof(fix) ==
    LET sessionId == Cardinality(DOMAIN runs) + 1
    IN  /\ SetButton(setProofButtonState(Button, "generating"))
        /\ position' = fix
        /\ circuitInput' = prepareCircuitInput(fix.lat, fix.lon, currentPolygon)
        /\ runs' = [s \in DOMAIN runs \cup {sessionId} |->
                      IF s = sessionId
                      THEN [IdleRun EXCEPT !.stage = "proving", !.gnssFix = fix]
                      ELSE runs[s]]

\* click on the generate button
ClickGenerate ==
    /\ gadget = "main.ts"
    /\ ~disabled
    /\ currentState \in {"idle", "success", "failure"}
    /\ Started < MaxSessions
    /\ StartAcquire(Button)
    /\ UNCHANGED <<loop, circuitVars, currentPolygon, position, circuitInput, normalized, swVars>>
    /\ UNCHANGED <<geolocation, runs, sessions, files>>

\* success callback of getCurrentPosition
PositionSuccess ==
    /\ gadget = "main.ts"
    /\ geoRequests > 0
    /\ geoRequests' = geoRequests - 1
    /\ \E fix \in Fixes :
          IF fix.accuracy > AccuracyLimit
          THEN /\ SetButton(setProofButtonState(Button, "failure"))
               /\ errorActions' = {<<"Try Again", NoFix>>, <<"Continue Anyway", fix>>}
               /\ UNCHANGED <<position, circuitInput, runs>>
          ELSE /\ ProceedWithProof(fix)
               /\ UNCHANGED errorActions
    /\ UNCHANGED <<loop, circuitVars, currentPolygon, normalized, swVars, geolocation, sessions, files>>

\* error callback of getCurrentPosition
PositionError ==
    /\ gadget = "main.ts"
    /\ geoRequests > 0
    /\ geoRequests' = geoRequests - 1
    /\ SetButton(setProofButtonState(Button, "failure"))
    /\ errorActions' = {<<"Try Again", NoFix>>}
    /\ UNCHANGED <<loop, circuitVars, currentPolygon, position, circuitInput, normalized, swVars>>
    /\ UNCHANGED <<geolocation, runs, sessions, files>>

\* click on 'Try Again' or 'Retry': setProofButtonState(IDLE); generateBtn.click()
ClickTryAgain ==
    /\ gadget = "main.ts"
    /\ \E a \in errorActions : a[1] \in {"Try Again", "Retry"}
    /\ Started < MaxSessions
    /\ StartAcquire(setProofButtonState(Button, "idle"))
    /\ UNCHANGED <<loop, circuitVars, currentPolygon, position, circuitInput, normalized, swVars>>
    /\ UNCHANGED <<geolocation, runs, sessions, files>>

\* click on 'Continue Anyway': proceedWithProof(position)
ClickContinueAnyway ==
    /\ gadget = "main.ts"
    /\ Started < MaxSessions
    /\ \E a \in errorActions : a[1] = "Continue Anyway" /\ ProceedWithProof(a[2])
    /\ UNCHANGED <<loop, circuitVars, currentPolygon, normalized, swVars>>
    /\ UNCHANGED <<geolocation, geoRequests, sessions, errorActions, files>>

\* click on 'Dismiss': setProofButtonState(IDLE)
ClickDismiss ==
    /\ gadget = "main.ts"
    /\ \E a \in errorActions : a[1] = "Dismiss"
    /\ SetButton(setProofButtonState(Button, "idle"))
    /\ UNCHANGED <<loop, circuitVars, currentPolygon, position, circuitInput, normalized, swVars>>
    /\ UNCHANGED <<geolocation, geoRequests, runs, sessions, errorActions, files>>

\* slip: SUCCESS is shown as soon as the proof is there, before saveGNSS
ProofResolved_Success ==
    /\ gadget = "main.ts"
    /\ \E s \in DOMAIN runs, r \in ProofResults :
          /\ runs[s].stage = "proving"
          /\ runs' = [runs EXCEPT ![s].stage = "saving", ![s].proof = r.proof,
                                  ![s].publicSignals = r.publicSignals]
    /\ SetButton(setProofButtonState(Button, "success"))
    /\ UNCHANGED <<loop, circuitVars, currentPolygon, position, circuitInput, normalized, swVars>>
    /\ UNCHANGED <<geolocation, geoRequests, sessions, errorActions, files>>

\* generateLocationProof resolves; saveGNSS is called
ProofResolved ==
    /\ gadget = "main.ts"
    /\ \E s \in DOMAIN runs, r \in ProofResults :
          /\ runs[s].stage = "proving"
          /\ runs' = [runs EXCEPT ![s].stage = "saving", ![s].proof = r.proof,
                                  ![s].publicSignals = r.publicSignals]
    /\ UNCHANGED <<loop, circuitVars, currentPolygon, position, circuitInput, normalized, swVars>>
    /\ UNCHANGED <<currentState, disabled, timerInterval, intervals, geolocation, geoRequests, sessions, errorActions, files>>

\* saveGNSS has stored its record: SUCCESS, result card (the error card is hidden)
SaveCompleted ==
    /\ gadget = "main.ts"
    /\ \E s \in DOMAIN runs :
          /\ runs[s].stage = "saving"
          /\ sessions' = [k \in DOMAIN sessions \cup {s} |->
                            IF k = s THEN saveGNSS(s, runs[s].gnssFix) ELSE sessions[k]]
          /\ runs' = [runs EXCEPT ![s].stage = "success"]
    /\ SetButton(setProofButtonState(Button, "success"))
    /\ errorActions' = {}
    /\ UNCHANGED <<loop, circuitVars, currentPolygon, position, circuitInput, normalized, swVars>>
    /\ UNCHANGED <<geolocation, geoRequests, files>>

\* slip: the catch block leaves the button as it is
RunRejected_Silent ==
    /\ gadget = "main.ts"
    /\ \E s \in DOMAIN runs :
          /\ runs[s].stage \in {"proving", "saving"}
          /\ runs' = [runs EXCEPT ![s].stage = "failed"]
    /\ SetButton(Button)
    /\ errorActions' = {<<"Retry", NoFix>>}
    /\ UNCHANGED <<loop, circuitVars, currentPolygon, position, circuitInput, normalized, swVars>>
    /\ UNCHANGED <<geolocation, geoRequests, sessions, files>>

\* initWebStore, generateLocationProof or saveGNSS rejects: the catch block
RunRejected ==
    /\ gadget = "main.ts"
    /\ \E s \in DOMAIN runs :
          /\ runs[s].stage \in {"proving", "saving"}
          /\ runs' = [runs EXCEPT ![s].stage = "failed"]
    /\ SetButton(setProofButtonState(Button, "failure"))
    /\ errorActions' = {<<"Retry", NoFix>>}
    /\ UNCHANGED <<loop, circuitVars, currentPolygon, position, circuitInput, normalized, swVars>>
    /\ UNCHANGED <<geolocation, geoRequests, sessions, files>>

\* updateHistoryCount or updateHistoryList rejects after SUCCESS was shown:
\* the same catch block
HistoryRejected ==
    /\ gadget = "main.ts"
    /\ \E s \in DOMAIN runs :
          /\ runs[s].stage = "success"
          /\ runs' = [runs EXCEPT ![s].stage = "failed"]
    /\ SetButton(setProofButtonState(Button, "failure"))
    /\ errorActions' = {<<"Retry", NoFix>>}
    /\ UNCHANGED <<loop, circuitVars, currentPolygon, position, circuitInput, normalized, swVars>>
    /\ UNCHANGED <<geolocation, geoRequests, sessions, files>>

\* window.downloadProof(sessionId)
DownloadProof ==
    /\ gadget = "main.ts"
    /\ \E s \in 1..MaxSessions :
          LET proof == getProofBySessionId(sessions, s)
          IN  files' = IF proof # <<>> /\ CanFormatProofForDownload(proof)
                       THEN files \cup {[name    |-> <<"proof", s>>,
                                          content |-> {formatProofForDownload(proof, "name", "hash")}]}
                       ELSE files
    /\ UNCHANGED <<loop, circuitVars, currentPolygon, position, circuitInput, normalized, swVars>>
    /\ UNCHANGED <<currentState, disabled, timerInterval, intervals, geolocation, geoRequests, runs, sessions, errorActions>>

\* window.downloadAllProofs()
DownloadAllProofs ==
    /\ gadget = "main.ts"
    /\ files' = files \cup {[name |-> <<"proofs", Now>>, content |-> getAllProofs(sessions)]}
    /\ UNCHANGED <<loop, circuitVars, currentPolygon, position, circuitInput, normalized, swVars>>
    /\ UNCHANGED <<currentState, disabled, timerInterval, intervals, geolocation, geoRequests, runs, sessions, errorActions>>

NextApp ==
    \/ ClickGenerate
    \/ PositionSuccess
    \/ PositionError
    \/ ClickTryAgain
    \/ ClickContinueAnyway
    \/ ClickDismiss
    \/ ProofResolved
    \/ SaveCompleted
    \/ RunRejected
    \/ HistoryRejected
    \/ DownloadProof
    \/ DownloadAllProofs

SpecApp == InitApp /\ [][NextApp]_vars

\* the handlers that read or write the button, the timer and the runs: the
\* downloads are left out, they change none of these
NextProof ==
    \/ ClickGenerate
    \/ PositionSuccess
    \/ PositionError
    \/ ClickTryAgain
    \/ ClickContinueAnyway
    \/ ClickDismiss
    \/ ProofResolved
    \/ SaveCompleted
    \/ RunRejected
    \/ HistoryRejected

SpecProof == InitApp /\ [][NextProof]_vars

\* every geolocation request calls one of its callbacks, and the promises of
\* generateLocationProof and saveGNSS settle
SpecProofFair ==
    /\ SpecProof
    /\ WF_vars(PositionSuccess \/ PositionError)
    /\ WF_vars(ProofResolved \/ RunRejected)
    /\ WF_vars(SaveCompleted \/ RunRejected)

(***************************************************************************)
(* The service worker (src/unnamed/part_000): install and fetch listeners  *)
(***************************************************************************)
\* the list of assets to cache (three of its eleven entries)
ASSETS == {"/", "/src/main.ts", "/circuits/Main.wasm"}

\* the requests a page can make: the assets and one other resource
Requests == ASSETS \cup {"/polygons.json"}

InitSw ==
    /\ gadget = "sw.js"
    /\ pc = "parsed"
    /\ CircuitIdle
    /\ LoopIdle
    /\ currentPolygon = NoPolygon
    /\ position = NoFix
    /\ circuitInput = NoInput
    /\ normalized = NotNormalized
    /\ currentState = "idle"
    /\ disabled = FALSE
    /\ timerInterval = 0
    /\ intervals = 0
    /\ geolocation = TRUE
    /\ geoRequests = 0
    /\ runs = NoSessions
    /\ sessions = NoSessions
    /\ errorActions = {}
    /\ files = {}
    /\ cache = {}
    /\ reachable \in SUBSET Requests
    /\ served = NoFetch

\* the network comes and goes, one resource at a time
NetworkChange ==
    /\ gadget = "sw.js"
    /\ \E r \in Requests :
          reachable' = IF r \in reachable THEN reachable \ {r} ELSE reachable \cup {r}
    /\ UNCHANGED <<loop, circuitVars, currentPolygon, position, circuitInput, normalized, appVars>>
    /\ UNCHANGED <<cache, served>>

\* install listener: cache.addAll(ASSETS) stores every asset or none; when it
\* rejects, the catch handler goes on to add the assets one by one
InstallAddAll ==
    /\ gadget = "sw.js"
    /\ pc = "parsed"
    /\ IF ASSETS \subseteq reachable
       THEN cache' = cache \cup ASSETS /\ pc' = "installed"
       ELSE UNCHANGED cache /\ pc' = "adding"
    /\ UNCHANGED <<gadget, gridbits, point, polygon, line1, line2, out, outP, loop>>
    /\ UNCHANGED <<currentPolygon, position, circuitInput, normalized, appVars>>
    /\ UNCHANGED <<reachable, served>>

\* Promise.all of cache.add(asset).catch(...): a failed asset is logged and
\* skipped, the promise handed to waitUntil resolves
InstallAddEach ==
    /\ gadget = "sw.js"
    /\ pc = "adding"
    /\ cache' = cache \cup (ASSETS \cap reachable)
    /\ pc' = "installed"
    /\ UNCHANGED <<gadget, gridbits, point, polygon, line1, line2, out, outP, loop>>
    /\ UNCHANGED <<currentPolygon, position, circuitInput, normalized, appVars>>
    /\ UNCHANGED <<reachable, served>>

\* fetch listener: a cached response is returned; otherwise the network is
\* asked, and a response with status 200 is put into the cache
Fetch ==
    /\ gadget = "sw.js"
    /\ pc = "installed"
    /\ \E r \in Requests :
          IF r \in cache
          THEN /\ served' = [request |-> r, from |-> "cache"]
               /\ UNCHANGED cache
          ELSE IF r \in reachable
          THEN /\ served' = [request |-> r, from |-> "network"]
               /\ cache' = cache \cup {r}
          ELSE /\ served' = [request |-> r, from |-> "network error"]
               /\ UNCHANGED cache
    /\ UNCHANGED <<loop, circuitVars, currentPolygon, position, circuitInput, normalized, appVars>>
    /\ UNCHANGED reachable

NextSw == NetworkChange \/ InstallAddAll \/ InstallAddEach \/ Fetch

SpecSw == InitSw /\ [][NextSw]_vars

(***************************************************************************)
(* Claims                                                                  *)
(***************************************************************************)
Satisfied == pc # "input" /\ pc # "base" /\ out # NoWitness

OutOfRange(c) == c >= Pow2(GridBits)

\* C1 (as stated): for every simple polygon and every point with satisfiable
\* constraints, the witness generator outputs 1 iff the point is strictly
\* inside the polygon (so 0 for every point on an edge).
C1_StrictlyInside ==
    (gadget = "RayTracing" /\ Satisfied /\ RefSimple(polygon)) =>
        (out = 1 <=> RefStrictlyInside(point, polygon))

\* C1 (amended): for every simple polygon and every point with satisfiable
\* constraints, a point sharing its y with a vertex yields 0; otherwise a
\* point off the boundary yields 1 iff it is strictly inside (a point on an
\* edge can yield 1).
C1_InsideOffBoundary ==
    (gadget = "RayTracing" /\ Satisfied /\ RefSimple(polygon)) =>
        /\ ShareY(point, polygon) => out = 0
        /\ (~ShareY(point, polygon) /\ ~RefOnBoundary(point, polygon)) =>
              (out = 1 <=> RefStrictlyInside(point, polygon))

C1_Witness ==
    /\ gadget = "RayTracing" /\ Satisfied /\ RefSimple(polygon)
    /\ RefStrictlyInside(point, polygon) /\ out = 1

\* C2: for every simple polygon and every point sharing its y with no vertex
\* (constraints satisfiable), the output is 1 iff the number of edges crossed
\* by the ray (0, y) -> (x, y), counted over the integers, is odd.
C2_ParityLaw ==
    (gadget = "RayTracing" /\ Satisfied /\ RefSimple(polygon)
       /\ ~ShareY(point, polygon)) =>
        out = RefCrossings(point, polygon) % 2

C2_Witness ==
    /\ gadget = "RayTracing" /\ Satisfied /\ RefSimple(polygon)
    /\ ~ShareY(point, polygon)
    /\ RefCrossings(point, polygon) = 2 /\ out = 0

\* C3: every satisfying assignment yields the output of the witness
\* generator: a prover cannot reach a different value of out.
C3_SoundOutput ==
    (gadget = "RayTracing" /\ pc = "proved") => outP = out

\* C4: a point sharing its y with a vertex yields 0 in every satisfying
\* assignment, and when no vertex shares the point's y the gate
\* not_on_vertex_line is 1.
C4_DegenerateRay ==
    (gadget = "RayTracing" /\ pc = "proved") =>
        /\ ShareY(point, polygon) => (out \in {0, NoWitness} /\ outP \in {0, NoWitness})
        /\ ~ShareY(point, polygon) => NotOnVertexLine(point, polygon) = 1

C4_Witness ==
    /\ gadget = "RayTracing" /\ pc = "proved" /\ ShareY(point, polygon)
    /\ RefSimple(polygon) /\ RefStrictlyInside(point, polygon)
    /\ out = 0 /\ outP = 0

\* C5: a coordinate at 2^grid_bits or above, as a field element, leaves the
\* constraints without any satisfying assignment.
C5_RangeRejection ==
    (gadget = "RayTracing" /\ pc = "proved"
       /\ \E c \in Coordinates(point, polygon) : OutOfRange(c)) =>
        (out = NoWitness /\ outP = NoWitness)

C5_Witness ==
    /\ gadget = "RayTracing" /\ pc = "proved"
    /\ polygon[N][2] = P - 1
    /\ \A c \in Coordinates(point, polygon) \ {P - 1} : ~OutOfRange(c)
    /\ XNonZero(polygon) /\ point[1] # 0
    /\ out = NoWitness /\ outP = NoWitness

\* C6 (as stated): on the padded square, (5,5) has a witness with output 1
\* and (20,20) has a witness with output 0.
C6_Scenario ==
    (gadget = "RayTracing" /\ pc = "proved") =>
        /\ point = <<5, 5>> => out = 1
        /\ point = <<20, 20>> => out = 0

\* C6 (amended): on the padded square neither (5,5) nor (20,20) has a
\* satisfying assignment: the vertex (0,0) fails x_zero.
C6_ScenarioRejected ==
    (gadget = "RayTracing" /\ pc = "proved") =>
        (out = NoWitness /\ outP = NoWitness)

C6_Witness ==
    /\ gadget = "RayTracing" /\ pc = "proved" /\ point = <<5, 5>>
    /\ polygon = PaddedSquare(3, 3, 3, 3)
    /\ out = NoWitness /\ outP = NoWitness

DegenerateLine(l) == l[1] = l[2]

\* C7: for non-degenerate segments of the grid, Intersects outputs 1 iff the
\* closed segments share a point.
C7_Intersects ==
    (gadget = "Intersects" /\ pc # "input"
       /\ ~DegenerateLine(line1) /\ ~DegenerateLine(line2)) =>
        out = (IF RefIntersect(line1[1], line1[2], line2[1], line2[2]) THEN 1 ELSE 0)

\* touching at an endpoint only
C7_Witness ==
    /\ gadget = "Intersects" /\ pc # "input" /\ out = 1
    /\ line1 = <<<<0, 0>>, <<2, 2>>>> /\ line2 = <<<<2, 2>>, <<3, 0>>>>

\* C8: Intersects(A, B) = Intersects(B, A) for non-degenerate segments.
C8_Symmetry ==
    (gadget = "Intersects" /\ pc # "input"
       /\ ~DegenerateLine(line1) /\ ~DegenerateLine(line2)) =>
        out = Intersects(gridbits, line2, line1)

\* an endpoint of line2 lies inside line1
C8_Witness ==
    /\ gadget = "Intersects" /\ pc # "input" /\ out = 1
    /\ line1 = <<<<0, 0>>, <<2, 2>>>> /\ line2 = <<<<1, 1>>, <<3, 0>>>>

\* C9: for non-collinear points Orientation(p0,p1,p2) and
\* Orientation(p0,p2,p1) are 1 and 2 in some order; for collinear points both
\* are 0.
C9_Orientation ==
    (gadget = "Orientation" /\ pc # "input") =>
        LET swapped == Orientation(<<line1[1], point, line1[2]>>)
        IN  IF Cross(line1[1], line1[2], point) # 0
            THEN {out, swapped} = {1, 2}
            ELSE out = 0 /\ swapped = 0

C9_Witness ==
    /\ gadget = "Orientation" /\ pc # "input"
    /\ Cross(line1[1], line1[2], point) < 0 /\ out = 1

\* C10: a segment with equal endpoints, passed as line1 or line2 of
\* Intersects or as line of OnSegment, leaves the gadget without output.
C10_NonDegeneracy ==
    /\ (gadget = "Intersects" /\ pc = "proved"
          /\ (DegenerateLine(line1) \/ DegenerateLine(line2))) =>
            (out = NoWitness /\ outP = NoWitness)
    /\ (gadget = "OnSegment" /\ pc = "witness" /\ DegenerateLine(line1)) =>
            out = NoWitness

\* the pairs of non-adjacent edges that share a point
CrossingPairs(poly) ==
    LET n == Len(poly)
    IN  { pr \in (1..n) \X (1..n) :
            /\ pr[1] < pr[2]
            /\ (pr[1] % n) + 1 # pr[2]
            /\ (pr[2] % n) + 1 # pr[1]
            /\ RefIntersect(RefEdge(poly, pr[1])[1], RefEdge(poly, pr[1])[2],
                            RefEdge(poly, pr[2])[1], RefEdge(poly, pr[2])[2]) }

NonDegenerateEdges(poly) ==
    \A i \in 1..Len(poly) : RefEdge(poly, i)[1] # RefEdge(poly, i)[2]

\* C11: for every polygon of n >= 4 in-range vertices with non-degenerate
\* edges, SimplePolygon outputs 1 if the polygon is simple and 0 otherwise.
C11_SimplePolygon ==
    (gadget = "SimplePolygon" /\ pc = "witness" /\ NonDegenerateEdges(polygon)) =>
        out = IF RefSimple(polygon) THEN 1 ELSE 0

\* a polygon with exactly one crossing pair of edges has been given output 0
C11_Witness ==
    /\ gadget = "SimplePolygon" /\ pc = "witness"
    /\ NonDegenerateEdges(polygon)
    /\ Cardinality(CrossingPairs(polygon)) = 1
    /\ out = 0

\* the location of the polygon's first vertex
FirstVertexLat == currentPolygon[1][2] * SubSteps

FirstVertexLon == currentPolygon[1][1] * SubSteps

\* C12: the circuit-grid polygon returned by prepareCircuitInput is the same
\* for every user location (it equals the one returned for a user standing
\* on the polygon's first vertex).
C12_PolygonIndependentOfLocation ==
    (gadget = "prepareCircuitInput" /\ pc = "done") =>
        circuitInput.polygon =
            prepareCircuitInput(FirstVertexLat, FirstVertexLon, currentPolygon).polygon

\* C14: every coordinate returned by prepareCircuitInput lies in
\* [0, 2^HostGridBits - 1].
C14_GridRange ==
    (gadget = "prepareCircuitInput" /\ pc = "done") =>
        /\ \A k \in 1..2 : circuitInput.point[k] \in 0 .. (Pow2(HostGridBits) - 1)
        /\ \A i \in 1..Len(circuitInput.polygon), k \in 1..2 :
              circuitInput.polygon[i][k] \in 0 .. (Pow2(HostGridBits) - 1)

\* the user and a vertex are at opposite ends of the longitude range
C14_Witness ==
    /\ gadget = "prepareCircuitInput" /\ pc = "done"
    /\ position.lon = MaxLon * SubSteps
    /\ currentPolygon[1][1] = -MaxLon
    /\ circuitInput.point[1] - circuitInput.polygon[1][1] = 2 * MaxLon

\* the records that hold the latitude or longitude of a fix
HoldsCoordinates(rec) == "lat" \in DOMAIN rec \/ "lon" \in DOMAIN rec

\* C13: no record of gnss_sessions and no downloaded file contains the
\* latitude or the longitude of a GNSS fix.
C13_NoCoordinatesStored ==
    gadget = "main.ts" =>
        /\ \A s \in DOMAIN sessions : ~HoldsCoordinates(sessions[s])
        /\ \A f \in files : \A rec \in f.content : ~HoldsCoordinates(rec)

\* C16: once a run of proceedWithProof has set SUCCESS for session id s, the
\* record stored under key s holds the generated proof and public signals.
C16_ProofSaved ==
    gadget = "main.ts" =>
        \A s \in DOMAIN runs :
            runs[s].stage = "success" =>
                /\ s \in DOMAIN sessions
                /\ {"proof", "publicSignals"} \subseteq DOMAIN sessions[s]
                /\ sessions[s].proof = runs[s].proof
                /\ sessions[s].publicSignals = runs[s].publicSignals

\* C15: normalizePolygonTo8Vertices either throws or returns exactly 8
\* vertices, no two consecutive ones equal.
C15_EightDistinctConsecutive ==
    (gadget = "normalizePolygonTo8Vertices" /\ pc = "done" /\ ~normalized.threw) =>
        /\ Len(normalized.polygon) = 8
        /\ \A i \in 1..(Len(normalized.polygon) - 1) :
              ~SameVertex(normalized.polygon[i], normalized.polygon[i + 1])

\* C17: once the install event has completed, every entry of ASSETS is in the
\* cache, and a fetch of an entry of ASSETS is answered from the cache.
C17_AssetsCached ==
    (gadget = "sw.js" /\ pc = "installed") =>
        /\ ASSETS \subseteq cache
        /\ served.request \in ASSETS => served.from = "cache"

\* the assignments of intersections[0..n-1].out that satisfy RayTracing
SatisfyingEdgeOuts ==
    { io \in EdgeIntersectsOuts(gridbits, point, polygon, Len(polygon)) :
        RayTracingOut(point, polygon, TRUE, io) # NoWitness }

\* C18: in every satisfying assignment of RayTracing the output is 0 or 1,
\* every per-edge Intersects output is 0 or 1 and their sum lies in 0..n.
C18_BooleanOutput ==
    (gadget = "RayTracing" /\ pc = "proved" /\ outP # NoWitness) =>
        /\ outP \in {0, 1}
        /\ \A io \in SatisfyingEdgeOuts :
              /\ \A i \in 1..Len(polygon) : io[i] \in {0, 1}
              /\ SumTo(io, Len(polygon)) \in 0..Len(polygon)

\* a prover has reached output 1 and three edges can be reported as met by the ray
C18_Witness ==
    /\ gadget = "RayTracing" /\ pc = "proved" /\ outP = 1
    /\ \E io \in SatisfyingEdgeOuts : SumTo(io, Len(polygon)) = 3

\* the cross-product term f of Orientation over the integers
IntegerF(p0, p1, p2) ==
    (p1[2] - p0[2]) * (p2[1] - p1[1]) - (p2[2] - p1[2]) * (p1[1] - p0[1])

\* C19: in every satisfying assignment of Orientation, out = 0 iff f = 0,
\* out = 1 iff f > 0 and out = 2 iff f < 0.
C19_Classification ==
    (gadget = "Orientation" /\ pc = "proved" /\ outP # NoWitness) =>
        LET f == IntegerF(line1[1], line1[2], point)
        IN  /\ outP = 0 <=> f = 0
            /\ outP = 1 <=> f > 0
            /\ outP = 2 <=> f < 0

\* C20: for a segment and a point of the grid, InRect outputs 1 iff the
\* point lies in the bounding box of the two endpoints, borders included,
\* in whichever order the endpoints are given, and 0 otherwise.
C20_InRect ==
    (gadget = "InRect" /\ pc = "witness") =>
        LET inBox ==
                /\ Min2(line1[1][1], line1[2][1]) <= point[1]
                /\ point[1] <= Max2(line1[1][1], line1[2][1])
                /\ Min2(line1[1][2], line1[2][2]) <= point[2]
                /\ point[2] <= Max2(line1[1][2], line1[2][2])
        IN  out = IF inBox THEN 1 ELSE 0

\* endpoints given in descending order on both axes, the point on the border
C20_Witness ==
    /\ gadget = "InRect" /\ pc = "witness" /\ out = 1
    /\ line1[1][1] > line1[2][1]
    /\ line1[1][2] > line1[2][2]
    /\ point[1] = line1[1][1]
    /\ point[2] = line1[2][2]

\* C21: for a non-degenerate segment and a point of the grid, OnSegment
\* outputs 1 iff the point lies on the closed segment, and 0 otherwise; the
\* same holds for every assignment the constraints accept.
C21_OnSegment ==
    (gadget = "OnSegment" /\ pc # "input" /\ ~DegenerateLine(line1)) =>
        LET on == IF RefOnSegment(line1[1], line1[2], point) THEN 1 ELSE 0
        IN  /\ out = on
            /\ pc = "proved" => outP = on

\* a point collinear with the segment and inside its bounding box, one
\* collinear but outside it, and one inside the box but off the line
C21_Witness ==
    /\ gadget = "OnSegment" /\ pc = "proved" /\ out = 1 /\ outP = 1
    /\ line1 = <<<<3, 3>>, <<1, 1>>>> /\ point = <<2, 2>>
    /\ OnSegment(gridbits, <<<<1, 1>>, <<2, 2>>>>, <<3, 3>>) = 0
    /\ OnSegment(gridbits, line1, <<1, 2>>) = 0

\* C22: for a and b of the grid, Order outputs out[0] = min(a, b) and
\* out[1] = max(a, b): the pair is a permutation of the inputs in ascending
\* order, also when a = b.
C22_Order ==
    (gadget = "Order" /\ pc = "witness") =>
        /\ out = <<Min2(point[1], point[2]), Max2(point[1], point[2])>>
        /\ out \in {<<point[1], point[2]>>, <<point[2], point[1]>>}
        /\ out[1] <= out[2]

\* a pair given in descending order comes out swapped
C22_Witness ==
    /\ gadget = "Order" /\ pc = "witness"
    /\ point = <<3, 1>> /\ out = <<1, 3>>

\* the unordered pairs of edges of an n-gon that share no vertex; edge a joins
\* the vertices a and (a + 1) % n
NonAdjacentEdgePairs(n) ==
    { pr \in (0..(n - 1)) \X (0..(n - 1)) :
        /\ pr[1] < pr[2]
        /\ {pr[1], (pr[1] + 1) % n} \cap {pr[2], (pr[2] + 1) % n} = {} }

\* C23: for n >= 4 the double loop of SimplePolygon never writes an index
\* beyond c - 1 and writes no index twice; when it ends it has instantiated
\* exactly c = (n-2)(n-1)/2 - 1 components, at the indices 0..c-1, one for each
\* unordered pair of non-adjacent edges and none for another pair.
C23_PairEnumeration ==
    (gadget = "SimplePolygon" /\ pc = "loop" /\ loop.n >= 4) =>
        LET c == cIntersects(loop.n)
        IN  /\ \A w \in loop.intersects : w[1] \in 0..(c - 1)
            /\ \A w1, w2 \in loop.intersects : w1[1] = w2[1] => w1 = w2
            /\ loop.i = loop.n =>
                  /\ loop.index = c
                  /\ c = ((loop.n - 2) * (loop.n - 1)) \div 2 - 1
                  /\ { w[1] : w \in loop.intersects } = 0..(c - 1)
                  /\ { <<w[2], w[3]>> : w \in loop.intersects }
                        = NonAdjacentEdgePairs(loop.n)
                  /\ Cardinality(loop.intersects) = c

\* the loop has ended for a hexagon: nine components, the last one for the
\* edges 3 and 5
C23_Witness ==
    /\ gadget = "SimplePolygon" /\ pc = "loop"
    /\ loop.n = 6 /\ loop.i = 6 /\ loop.index = 9
    /\ <<8, 3, 5>> \in loop.intersects

\* the executions of proceedWithProof that have not reached their end
InProgress == { s \in DOMAIN runs : runs[s].stage \in {"proving", "saving"} }

\* C24: under every interleaving of clicks and geolocation callbacks at most
\* one execution of proceedWithProof is in progress.
C24_NoOverlappingRuns ==
    gadget = "main.ts" => Cardinality(InProgress) <= 1

\* C25: a geolocation callback (the only step that takes a request off
\* geoRequests) starts a proof generation only for a fix whose accuracy is
\* below 100 meters; for any other fix it leaves the state FAILURE.
C25_AccuracyGate ==
    [][ (gadget = "main.ts" /\ geoRequests' = geoRequests - 1) =>
          /\ DOMAIN runs' # DOMAIN runs => position'.accuracy < AccuracyLimit
          /\ DOMAIN runs' = DOMAIN runs => currentState' = "failure" ]_vars

\* C26: when every geolocation request calls a callback and the proving and
\* storage promises settle, a state ACQUIRING or GENERATING is always followed
\* by SUCCESS or FAILURE.
C26_RunTerminates ==
    (gadget = "main.ts" /\ currentState \in {"acquiring", "generating"})
        ~> (currentState \in {"success", "failure"})

\* a run that went through ACQUIRING and GENERATING has ended in SUCCESS
C26_Witness ==
    /\ gadget = "main.ts" /\ currentState = "success"
    /\ geoRequests = 0 /\ InProgress = {}
    /\ \E s \in DOMAIN runs : runs[s].stage = "success"

\* the stage of run s before the step, "none" if the run starts in it
StageBefore(s) == IF s \in DOMAIN runs THEN runs[s].stage ELSE "none"

\* C27: the state is set to SUCCESS only by a run whose proof has been
\* resolved and whose saveGNSS has completed in that step, with the record of
\* its session id in the store; a run in which either rejects sets FAILURE
\* and never reaches SUCCESS.
C27_SuccessAfterPersistence ==
    [][ gadget = "main.ts" =>
          /\ \A s \in DOMAIN runs' :
                (runs'[s].stage = "success" /\ StageBefore(s) # "success") =>
                    /\ StageBefore(s) = "saving"
                    /\ runs[s].proof # "none"
                    /\ s \in DOMAIN sessions'
                    /\ sessions'[s] = saveGNSS(s, runs[s].gnssFix)
          /\ (currentState' = "success" /\ currentState # "success") =>
                \E s \in DOMAIN runs :
                    runs[s].stage = "saving" /\ runs'[s].stage = "success"
          /\ \A s \in DOMAIN runs :
                /\ runs[s].stage = "failed" => runs'[s].stage = "failed"
                /\ (runs[s].stage \in {"proving", "saving"}
                      /\ runs'[s].stage = "failed") => currentState' = "failure"
      ]_vars

\* one run has saved its record and shown SUCCESS, another one was rejected
\* and has left no record
C27_Witness ==
    /\ gadget = "main.ts" /\ currentState = "success"
    /\ \E s, t \in DOMAIN runs :
          /\ runs[s].stage = "success" /\ s \in DOMAIN sessions
          /\ runs[t].stage = "failed" /\ t \notin DOMAIN sessions

Accepted(grid_bits, pt, poly) ==
    /\ \A c \in Coordinates(pt, poly) : c \in 0..(Pow2(grid_bits) - 1)
    /\ \A i \in 1..Len(poly) : poly[i][1] # 0
    /\ pt[1] # 0
    /\ \A i \in 1..Len(poly) : poly[i] # poly[(i % Len(poly)) + 1]

====
